---- MODULE Spec2Model ----
(***************************************************************************)
(* A model of GSAT/XVG.py: the XVG class (file parsing, header             *)
(* reconciliation, average, moving average, CSV export, distribution).     *)
(*                                                                         *)
(* Text is modelled at character level: a Python str is a sequence of      *)
(* one-character strings.  A parsed float is an integer (the data tokens   *)
(* of the modelled files are digit strings); a computed real is an exact   *)
(* rational <<numerator, denominator>>; NaN is the empty tuple.            *)
(***************************************************************************)
EXTENDS Integers, Sequences, FiniteSets, TLC

\* ------------------------------------------------------------------ bounds
\* Lines read from a file drawn from LinePool.
MaxLines == 4
\* Rows of the single-column file 1, 2, 3, ...
MaxRamp == 6
\* Largest bin count handed to draw_distribution.
MaxBin == 3
\* Largest index handed to calc_average as start or end.
MaxIdx == 3

\* ------------------------------------------------------- Python str model
WS == {" ", "\t"}

DQ == "\""

Last(s) == s[Len(s)]

Sum(f, S) == LET RECURSIVE go(_)
                 go(T) == IF T = {} THEN 0
                          ELSE LET x == CHOOSE y \in T : TRUE
                               IN f[x] + go(T \ {x})
             IN go(S)

SeqSum(s) == Sum(s, DOMAIN s)

\* str.strip(chars): drop leading and trailing characters that are in chars.
RECURSIVE LStripChars(_, _)
LStripChars(s, chars) ==
    IF s # <<>> /\ Head(s) \in chars THEN LStripChars(Tail(s), chars) ELSE s

RECURSIVE RStripChars(_, _)
RStripChars(s, chars) ==
    IF s # <<>> /\ Last(s) \in chars
    THEN RStripChars(SubSeq(s, 1, Len(s) - 1), chars)
    ELSE s

StripChars(s, chars) == RStripChars(LStripChars(s, chars), chars)

\* str.strip()
Strip(s) == StripChars(s, WS)

\* str.split(sep) for a one-character sep: empty pieces are kept.
RECURSIVE SplitFrom(_, _, _, _)
SplitFrom(s, sep, i, cur) ==
    IF i > Len(s) THEN <<cur>>
    ELSE IF s[i] = sep THEN <<cur>> \o SplitFrom(s, sep, i + 1, <<>>)
    ELSE SplitFrom(s, sep, i + 1, Append(cur, s[i]))

Split(s, sep) == SplitFrom(s, sep, 1, <<>>)

\* str.split(): pieces between runs of whitespace, none of them empty.
RECURSIVE SplitWSFrom(_, _, _)
SplitWSFrom(s, i, cur) ==
    IF i > Len(s) THEN (IF cur = <<>> THEN <<>> ELSE <<cur>>)
    ELSE IF s[i] \in WS
         THEN (IF cur = <<>> THEN <<>> ELSE <<cur>>) \o SplitWSFrom(s, i + 1, <<>>)
         ELSE SplitWSFrom(s, i + 1, Append(cur, s[i]))

SplitWS(s) == SplitWSFrom(s, 1, <<>>)

\* str.startswith(p)
StartsWith(s, p) == Len(s) >= Len(p) /\ SubSeq(s, 1, Len(p)) = p

\* p in s
Contains(s, p) ==
    \E i \in 1..(Len(s) - Len(p) + 1) : SubSeq(s, i, i + Len(p) - 1) = p

\* sep.join(parts)
RECURSIVE Join(_, _)
Join(parts, sep) ==
    IF parts = <<>> THEN <<>>
    ELSE IF Len(parts) = 1 THEN parts[1]
    ELSE parts[1] \o sep \o Join(Tail(parts), sep)

Digits == <<"0", "1", "2", "3", "4", "5", "6", "7", "8", "9">>

DigitVal(c) == (CHOOSE d \in 1..10 : Digits[d] = c) - 1

IsDigit(c) == \E d \in 1..10 : Digits[d] = c

\* float(token) succeeds on the digit strings of the modelled files.
IsNumeric(tok) == tok # <<>> /\ \A i \in 1..Len(tok) : IsDigit(tok[i])

RECURSIVE ParseDigits(_, _)
ParseDigits(tok, acc) ==
    IF tok = <<>> THEN acc
    ELSE ParseDigits(Tail(tok), acc * 10 + DigitVal(Head(tok)))

ToFloat(tok) == ParseDigits(tok, 0)

RECURSIVE NatStr(_)
NatStr(n) == IF n < 10 THEN <<Digits[n + 1]>>
             ELSE NatStr(n \div 10) \o <<Digits[(n % 10) + 1]>>

\* str(x) of a float holding a small non-negative integer: "3.0"
FloatStr(n) == NatStr(n) \o <<".", "0">>

\* ------------------------------------------------------------ input files
T_title == <<"t", "i", "t", "l", "e">>
T_subtitle == <<"s", "u", "b">> \o T_title
T_xaxis == <<"x", "a", "x", "i", "s">>
T_yaxis == <<"y", "a", "x", "i", "s">>
T_label == <<"l", "a", "b", "e", "l">>
T_legend == <<"l", "e", "g", "e", "n", "d">>

Quoted(s) == <<DQ>> \o s \o <<DQ>>

LinePool ==
    { <<"#", " ", "c">>,
      <<"&">>,
      <<" ">>,
      <<"@", " ">> \o T_title \o <<" ">> \o Quoted(<<"T">>),
      <<"@", " ">> \o T_title \o <<" ", "T">>,
      <<"@", " ">> \o T_xaxis \o <<" ">> \o T_label \o <<" ">> \o Quoted(<<"t">>),
      <<"@", " ">> \o T_yaxis \o <<" ">> \o T_label \o <<" ">> \o Quoted(<<"A", ",", " ", "B">>),
      <<"@", " ">> \o T_yaxis \o <<" ">> \o T_label \o <<" ">> \o Quoted(<<"n", "m">>),
      <<"@", " ">> \o T_yaxis \o <<" ">> \o T_label \o <<" ">> \o Quoted(<<"F", "o", "r", "c", "e">>),
      <<"@", " ", "s", "0", " ">> \o T_legend \o <<" ">> \o Quoted(<<"s", "1">>),
      <<"@", " ", "s", "1", " ">> \o T_legend \o <<" ">> \o Quoted(<<"s", "2">>),
      <<"1", " ", "2">>,
      <<" ", "3", "\t", " ", "2", " ">>,
      <<"5">>,
      <<"1", " ", "2", " ", "3">>,
      <<"4", " ", "0", " ", "x">> }

RampLine(k) == NatStr(k)

XvgName == <<"m", "d", ".", "x", "v", "g">>
TxtName == <<"m", "d", ".", "t", "x", "t">>
CsvName == <<"o", ".", "c", "s", "v">>

\* ------------------------------------------------------------------ state
VARIABLES
    pc,             \* "new", "parse", "ready", "returned" (a method returned ret),
                    \* "exited" (exit() was called), "raised" (an exception escaped)
    err,            \* which error ended the run, "" if none
    errLine,        \* the text printed with the column-count error
    feed,           \* which family of files is being read: "pool" or "ramp"
    nread,          \* raw lines of the file consumed so far
    nData,          \* history: non-blank lines that are neither comment nor metadata
    lastLine,       \* history: the last non-blank stripped line handed to the loop
    xvg_filename,
    xvg_title,
    xvg_xlabel,
    xvg_ylabel,
    xvg_legends,
    xvg_column_num,
    xvg_row_num,
    xvg_columns,
    data_heads,
    data_columns,
    warned,         \* the header pairing warning was printed
    ret             \* the last method call: its arguments and what it returned

vars == <<pc, err, errLine, feed, nread, nData, lastLine, xvg_filename, xvg_title,
          xvg_xlabel, xvg_ylabel, xvg_legends, xvg_column_num, xvg_row_num,
          xvg_columns, data_heads, data_columns, warned, ret>>

fields == <<xvg_title, xvg_xlabel, xvg_ylabel, xvg_legends, xvg_column_num,
            xvg_row_num, xvg_columns>>

NoRet == [op |-> "none", args |-> <<>>, val |-> <<>>]

Init ==
    /\ pc = "new"
    /\ err = ""
    /\ errLine = <<>>
    /\ feed \in {"pool", "ramp"}
    /\ nread = 0
    /\ nData = 0
    /\ lastLine = <<>>
    /\ xvg_filename = <<>>
    /\ xvg_title = <<>>
    /\ xvg_xlabel = <<>>
    /\ xvg_ylabel = <<>>
    /\ xvg_legends = <<>>
    /\ xvg_column_num = 0
    /\ xvg_row_num = 0
    /\ xvg_columns = <<>>
    /\ data_heads = <<>>
    /\ data_columns = <<>>
    /\ warned = FALSE
    /\ ret = NoRet

\* ------------------------------------------------- __init__: opening the file
Open(xvgfile, exists) ==
    /\ pc = "new"
    /\ xvg_filename' = xvgfile
    /\ IF ~exists
       THEN pc' = "exited" /\ err' = "FileNotFound"
       ELSE IF SubSeq(xvgfile, Len(xvgfile) - 3, Len(xvgfile)) # <<".", "x", "v", "g">>
       THEN pc' = "exited" /\ err' = "BadExtension"
       ELSE pc' = "parse" /\ err' = ""
    /\ UNCHANGED <<errLine, feed, nread, nData, lastLine, fields, data_heads,
                   data_columns, warned, ret>>

\* ---------------------------------------------- __init__: the loop over lines
IsComment(line) == StartsWith(line, <<"#">>) \/ StartsWith(line, <<"&">>)

IsMeta(line) == StartsWith(line, <<"@">>)

\* line.strip('"').split('"')[-1]
ExtractValue(line) == Last(Split(StripChars(line, {DQ}), DQ))

IsTitleLine(line) == Contains(line, T_title) /\ ~Contains(line, T_subtitle)

IsXLabelLine(line) == Contains(line, T_xaxis) /\ Contains(line, T_label)

IsYLabelLine(line) == Contains(line, T_yaxis) /\ Contains(line, T_label)

IsLegendLine(line) == StartsWith(line, <<"@", " ", "s">>) /\ Contains(line, T_legend)

\* Which attribute a metadata line sets (the if/elif chain).
MetaKind(line) ==
    IF IsTitleLine(line) THEN "title"
    ELSE IF IsXLabelLine(line) THEN "xlabel"
    ELSE IF IsYLabelLine(line) THEN "ylabel"
    ELSE IF IsLegendLine(line) THEN "legend"
    ELSE "other"

RowMismatchShortOnly(items, columns) == Len(items) < Len(columns)

RowMismatch(items, columns) == Len(items) # Len(columns)

\* for i in range(len(items)): self.xvg_columns[i].append(items[i])
AppendRow(columns, items) ==
    [i \in 1..Len(columns) |->
        IF i <= Len(items) THEN Append(columns[i], items[i]) ELSE columns[i]]

MetaLine(line) ==
    LET kind == MetaKind(line)
        v == ExtractValue(line)
    IN /\ xvg_title' = IF kind = "title" THEN v ELSE xvg_title
       /\ xvg_xlabel' = IF kind = "xlabel" THEN v ELSE xvg_xlabel
       /\ xvg_ylabel' = IF kind = "ylabel" THEN v ELSE xvg_ylabel
       /\ xvg_legends' = IF kind = "legend" THEN Append(xvg_legends, v) ELSE xvg_legends
       /\ UNCHANGED <<pc, err, errLine, xvg_column_num, xvg_row_num, xvg_columns>>

DataLine(line) ==
    LET items == SplitWS(line)
        first == Len(xvg_columns) = 0
        columns == IF first THEN [i \in 1..Len(items) |-> <<>>] ELSE xvg_columns
        colnum == IF first THEN Len(items) ELSE xvg_column_num
        rownum == IF first THEN 0 ELSE xvg_row_num
    IN /\ xvg_column_num' = colnum
       /\ UNCHANGED <<xvg_title, xvg_xlabel, xvg_ylabel, xvg_legends>>
       /\ IF RowMismatch(items, columns)
          THEN /\ pc' = "exited"
               /\ err' = "ColumnCountMismatch"
               /\ errLine' = line
               /\ xvg_columns' = columns
               /\ xvg_row_num' = rownum
          ELSE IF Len(items) > Len(columns)
          THEN /\ pc' = "raised"
               /\ err' = "IndexError"
               /\ xvg_columns' = columns
               /\ xvg_row_num' = rownum
               /\ UNCHANGED errLine
          ELSE /\ xvg_columns' = AppendRow(columns, items)
               /\ xvg_row_num' = rownum + 1
               /\ UNCHANGED <<pc, err, errLine>>

\* History only: a non-empty line that is neither a comment nor metadata.
CountsAsData(line) == Head(line) \notin {"#", "&", "@"}

ParseLine(raw) ==
    /\ pc = "parse"
    /\ nread' = nread + 1
    /\ UNCHANGED <<feed, xvg_filename, data_heads, data_columns, warned, ret>>
    /\ LET line == Strip(raw)
       IN IF line = <<>>
          THEN UNCHANGED <<pc, err, errLine, nData, lastLine, fields>>
          ELSE /\ lastLine' = line
               /\ nData' = IF CountsAsData(line) THEN nData + 1 ELSE nData
               /\ IF IsComment(line)
                  THEN UNCHANGED <<pc, err, errLine, fields>>
                  ELSE IF IsMeta(line) THEN MetaLine(line) ELSE DataLine(line)

ReadPool == /\ feed = "pool"
            /\ nread < MaxLines
            /\ \E raw \in LinePool : ParseLine(raw)

ReadRamp == /\ feed = "ramp"
            /\ nread < MaxRamp
            /\ ParseLine(RampLine(nread + 1))

\* ------------------------------------- __init__: post-processing the infos
NoneOpt == <<>>

Some(i) == <<i>>

HeadsFromLe5(legends, ylabel) ==
    LET pieces == Split(ylabel, ",")
        items == [k \in 1..Len(pieces) |-> Strip(pieces[k])]
    IN IF Len(items) = Len(legends)
       THEN [heads |-> [i \in 1..Len(legends) |-> legends[i] \o <<" ">> \o items[i]],
             warn |-> FALSE]
       ELSE IF Len(items) = 1 /\ Len(items[1]) <= 5
       THEN [heads |-> [i \in 1..Len(legends) |-> legends[i] \o <<" ">> \o items[1]],
             warn |-> FALSE]
       ELSE [heads |-> legends, warn |-> TRUE]

HeadsFrom(legends, ylabel) ==
    LET pieces == Split(ylabel, ",")
        items == [k \in 1..Len(pieces) |-> Strip(pieces[k])]
    IN IF Len(items) = Len(legends)
       THEN [heads |-> [i \in 1..Len(legends) |-> legends[i] \o <<" ">> \o items[i]],
             warn |-> FALSE]
       ELSE IF Len(items) = 1 /\ Len(items[1]) < 5
       THEN [heads |-> [i \in 1..Len(legends) |-> legends[i] \o <<" ">> \o items[1]],
             warn |-> FALSE]
       ELSE [heads |-> legends, warn |-> TRUE]

\* The legend branch is taken.
UseLegends(legends, columns) == Len(legends) > 0 /\ Len(columns) > Len(legends)

\* The no-legend branch is taken.
UseYLabel(legends, columns) == Len(legends) = 0 /\ Len(columns) > 1

\* [float(c) for c in column]
FloatColumn(column) == [r \in 1..Len(column) |-> ToFloat(column[r])]

ReconcileNoYHead(xlabel, ylabel, legends, columns) ==
    LET h == HeadsFrom(legends, ylabel)
        a == IF UseYLabel(legends, columns)
             THEN [heads |-> <<>>, cols |-> <<2>>]
             ELSE [heads |-> <<>>, cols |-> <<>>]
        b == IF UseLegends(legends, columns)
             THEN [heads |-> h.heads, cols |-> [i \in 1..Len(h.heads) |-> i + 1]]
             ELSE [heads |-> <<>>, cols |-> <<>>]
    IN [heads |-> <<xlabel>> \o a.heads \o b.heads,
        cols |-> <<1>> \o a.cols \o b.cols,
        warn |-> UseLegends(legends, columns) /\ h.warn]

\* The headers and the indices (from 1) of the raw columns that become data columns.
Reconcile(xlabel, ylabel, legends, columns) ==
    LET h == HeadsFrom(legends, ylabel)
        a == IF UseYLabel(legends, columns)
             THEN [heads |-> <<ylabel>>, cols |-> <<2>>]
             ELSE [heads |-> <<>>, cols |-> <<>>]
        b == IF UseLegends(legends, columns)
             THEN [heads |-> h.heads, cols |-> [i \in 1..Len(h.heads) |-> i + 1]]
             ELSE [heads |-> <<>>, cols |-> <<>>]
    IN [heads |-> <<xlabel>> \o a.heads \o b.heads,
        cols |-> <<1>> \o a.cols \o b.cols,
        warn |-> UseLegends(legends, columns) /\ h.warn]

\* End of file: lines 142-187.  When float() raises, the constructor raises and
\* the half-built object is dropped; its data_heads/data_columns are left empty.
EndParse ==
    /\ pc = "parse"
    /\ nread' = 0
    /\ lastLine' = <<>>
    /\ UNCHANGED <<errLine, feed, nData, xvg_filename, fields, ret>>
    /\ IF \E c \in 1..xvg_column_num : Len(xvg_columns[c]) # xvg_row_num
       THEN /\ pc' = "exited" /\ err' = "StructuralError"
            /\ UNCHANGED <<data_heads, data_columns, warned>>
       ELSE IF xvg_column_num = 0 \/ xvg_row_num = 0
       THEN /\ pc' = "exited" /\ err' = "NoData"
            /\ UNCHANGED <<data_heads, data_columns, warned>>
       ELSE LET rec == Reconcile(xvg_xlabel, xvg_ylabel, xvg_legends, xvg_columns)
            IN IF \E k \in 1..Len(rec.cols) : rec.cols[k] > Len(xvg_columns)
               THEN /\ pc' = "raised" /\ err' = "IndexError"
                    /\ UNCHANGED <<data_heads, data_columns, warned>>
               ELSE IF \E k \in 1..Len(rec.cols) :
                          \E r \in 1..xvg_row_num : ~IsNumeric(xvg_columns[rec.cols[k]][r])
               THEN /\ pc' = "raised" /\ err' = "ValueError"
                    /\ UNCHANGED <<data_heads, data_columns, warned>>
               ELSE /\ pc' = "ready" /\ err' = ""
                    /\ data_heads' = rec.heads
                    /\ data_columns' =
                         [k \in 1..Len(rec.cols) |-> FloatColumn(xvg_columns[rec.cols[k]])]
                    /\ warned' = rec.warn

\* ------------------------------------------------------------ numpy model
NaN == <<>>

Max2(a, b) == IF a >= b THEN a ELSE b

Min2(a, b) == IF a <= b THEN a ELSE b

SeqMin(xs) == CHOOSE m \in {xs[i] : i \in DOMAIN xs} : \A i \in DOMAIN xs : m <= xs[i]

SeqMax(xs) == CHOOSE m \in {xs[i] : i \in DOMAIN xs} : \A i \in DOMAIN xs : m >= xs[i]

\* np.average / np.mean: the exact rational sum/len; NaN on an empty slice.
Mean(xs) == IF xs = <<>> THEN NaN ELSE <<SeqSum(xs), Len(xs)>>

\* np.std (population): the non-negative root of (n*sum(x^2) - sum(x)^2) / n^2,
\* kept as <<"sqrt", numerator, denominator>>; NaN on an empty slice.
Std(xs) ==
    IF xs = <<>> THEN NaN
    ELSE <<"sqrt",
           Len(xs) * SeqSum([i \in DOMAIN xs |-> xs[i] * xs[i]]) - SeqSum(xs) * SeqSum(xs),
           Len(xs) * Len(xs)>>

\* column[start:end] with Python's rules for None, negative and too-large bounds.
PySlice(column, start, end) ==
    LET n == Len(column)
        clamp(i) == IF i < 0 THEN Max2(n + i, 0) ELSE Min2(i, n)
        s == IF start = NoneOpt THEN 0 ELSE clamp(start[1])
        e == IF end = NoneOpt THEN n ELSE clamp(end[1])
    IN SubSeq(column, s + 1, e)

\* ------------------------------------------------------------ calc_average
AverageRejects(start, end, row_num) ==
    \/ start # NoneOpt /\ end # NoneOpt /\ start[1] >= end[1]
    \/ start # NoneOpt /\ start[1] >= row_num
    \/ end # NoneOpt /\ end[1] >= row_num

ColumnAverage(column, start, end) == Mean(PySlice(column, start, end))

ColumnStd(column, start, end) == Std(PySlice(column, start, end))

CalcAverage(start, end) ==
    /\ pc = "ready"
    /\ UNCHANGED <<errLine, feed, nread, nData, lastLine, xvg_filename, fields,
                   data_heads, data_columns, warned>>
    /\ IF AverageRejects(start, end, xvg_row_num)
       THEN /\ pc' = "exited" /\ err' = "InvalidRange"
            /\ ret' = [op |-> "calc_average", args |-> <<start, end>>, val |-> <<>>]
       ELSE /\ pc' = "returned" /\ UNCHANGED err
            /\ ret' = [op |-> "calc_average", args |-> <<start, end>>,
                       val |-> [heads |-> data_heads,
                                averages |-> [c \in 1..Len(data_columns) |->
                                    ColumnAverage(data_columns[c], start, end)],
                                stds |-> [c \in 1..Len(data_columns) |->
                                    ColumnStd(data_columns[c], start, end)]]]

\* -------------------------------------------------------------- calc_mvave
\* confidence is given in thousandths (950 is 0.95).
MvaveRejectsWindowWhole(windowsize, row_num) ==
    windowsize <= 0 \/ windowsize > row_num

MvaveRejectsWindow(windowsize, row_num) ==
    windowsize <= 0 \/ windowsize > row_num \div 2

MvaveRejectsConfidence(confidence) == confidence <= 0 \/ confidence >= 1000

\* scipy norm.ppf((1 + confidence) / 2), in thousandths.
ZScore(confidence) ==
    CASE confidence = 500 -> 674
      [] confidence = 900 -> 1645
      [] confidence = 950 -> 1960
      [] OTHER -> 0

\* stats.norm.interval(confidence, ave, std): the two numbers ave -/+ z * std,
\* each kept as <<"affine", ave, z, std>>; NaN for both when the scale is 0.
Interval(confidence, ave, std) ==
    IF std[2] = 0 THEN <<NaN, NaN>>
    ELSE << <<"affine", ave, 0 - ZScore(confidence), std>>,
            <<"affine", ave, ZScore(confidence), std>> >>

WindowDataInclusive(column, i, windowsize) ==
    PySlice(column, Some(i - windowsize + 1), Some(i + 1))

\* column[i - windowsize : i], i counted from 0
WindowData(column, i, windowsize) == PySlice(column, Some(i - windowsize), Some(i))

\* One column's three lists; position k (from 1) holds index k - 1.
ColumnMvave(column, windowsize, confidence, row_num) ==
    LET n == Max2(row_num, windowsize)
        w(k) == WindowData(column, k - 1, windowsize)
    IN [mv_ave |-> [k \in 1..n |-> IF k <= windowsize THEN NaN ELSE Mean(w(k))],
        low |-> [k \in 1..n |->
                    IF k <= windowsize THEN NaN
                    ELSE Interval(confidence, Mean(w(k)), Std(w(k)))[1]],
        high |-> [k \in 1..n |->
                    IF k <= windowsize THEN NaN
                    ELSE Interval(confidence, Mean(w(k)), Std(w(k)))[2]]]

CalcMvave(windowsize, confidence) ==
    /\ pc = "ready"
    /\ UNCHANGED <<errLine, feed, nread, nData, lastLine, xvg_filename, fields,
                   data_heads, data_columns, warned>>
    /\ IF MvaveRejectsWindow(windowsize, xvg_row_num)
       THEN /\ pc' = "exited" /\ err' = "InvalidWindow"
            /\ ret' = [op |-> "calc_mvave", args |-> <<windowsize, confidence>>, val |-> <<>>]
       ELSE IF MvaveRejectsConfidence(confidence)
       THEN /\ pc' = "exited" /\ err' = "InvalidConfidence"
            /\ ret' = [op |-> "calc_mvave", args |-> <<windowsize, confidence>>, val |-> <<>>]
       ELSE /\ pc' = "returned" /\ UNCHANGED err
            /\ ret' = [op |-> "calc_mvave", args |-> <<windowsize, confidence>>,
                       val |-> [c \in 1..Len(data_columns) |->
                           ColumnMvave(data_columns[c], windowsize, confidence, xvg_row_num)]]

\* ----------------------------------------------------------------- xvg2csv
\* The columns written: the data columns, then the raw columns they do not cover.
OutData(dcolumns, xcolumns) ==
    IF Len(dcolumns) = Len(xcolumns)
    THEN [k \in 1..Len(dcolumns) |-> [r \in 1..Len(dcolumns[k]) |-> FloatStr(dcolumns[k][r])]]
    ELSE IF Len(dcolumns) < Len(xcolumns)
    THEN [k \in 1..Len(xcolumns) |->
            IF k <= Len(dcolumns)
            THEN [r \in 1..Len(dcolumns[k]) |-> FloatStr(dcolumns[k][r])]
            ELSE xcolumns[k]]
    ELSE <<>>

\* The text written to the csv file, one character sequence per line.
CsvLines(heads, out_data, row_num) ==
    <<Join(heads, <<",">>)>> \o
    [r \in 1..row_num |-> Join([k \in 1..Len(out_data) |-> out_data[k][r]], <<",">>)]

Xvg2csv(outcsv, exists) ==
    LET path == IF outcsv = <<>>
                THEN SubSeq(xvg_filename, 1, Len(xvg_filename) - 4) \o <<".", "c", "s", "v">>
                ELSE outcsv
    IN /\ pc = "ready"
       /\ UNCHANGED <<errLine, feed, nread, nData, lastLine, xvg_filename, fields,
                      data_heads, data_columns, warned>>
       /\ IF SubSeq(path, Len(path) - 3, Len(path)) # <<".", "c", "s", "v">>
          THEN /\ pc' = "exited" /\ err' = "BadCsvName"
               /\ ret' = [op |-> "xvg2csv", args |-> <<path>>, val |-> <<>>]
          ELSE IF exists
          THEN /\ pc' = "exited" /\ err' = "CsvExists"
               /\ ret' = [op |-> "xvg2csv", args |-> <<path>>, val |-> <<>>]
          ELSE /\ pc' = "returned" /\ UNCHANGED err
               /\ ret' = [op |-> "xvg2csv", args |-> <<path>>,
                          val |-> CsvLines(data_heads, OutData(data_columns, xvg_columns),
                                           xvg_row_num)]

\* ------------------------------------------------------- draw_distribution
\* int((value - column_min) / bin_window) with bin_window = (max - min) / bin,
\* in exact arithmetic (value >= column_min, so int() is the floor).
BinIndex(value, column_min, column_max, bin) ==
    ((value - column_min) * bin) \div (column_max - column_min)

ClampIndexMissing(index, bin) == index

\* if index == bin: index = bin - 1
ClampIndex(index, bin) == IF index = bin THEN bin - 1 ELSE index

\* frequency[index] += 1 raises IndexError outside -bin..bin-1.
IndexOk(index, bin) == 0 - bin <= index /\ index <= bin - 1

WrapIndex(index, bin) == IF index < 0 THEN index + bin ELSE index

TargetIndex(value, column, bin) ==
    ClampIndex(BinIndex(value, SeqMin(column), SeqMax(column), bin), bin)

\* The raw counts, position b (from 1) holding bucket b - 1.
Frequency(column, bin) ==
    [b \in 1..bin |->
        Cardinality({r \in DOMAIN column :
            WrapIndex(TargetIndex(column[r], column, bin), bin) = b - 1})]

\* One column's outcome: an error, or the plotted x values and frequencies.
ColumnDistribution(column, bin, row_num) ==
    LET cmin == SeqMin(column)
        cmax == SeqMax(column)
    IN IF cmax - cmin # 0
       THEN IF \E r \in DOMAIN column : ~IndexOk(TargetIndex(column[r], column, bin), bin)
            THEN [error |-> "IndexError", x_value |-> <<>>, frequency |-> <<>>, counts |-> <<>>]
            ELSE IF SeqSum(Frequency(column, bin)) # row_num
            THEN [error |-> "ConsistencyError", x_value |-> <<>>, frequency |-> <<>>,
                  counts |-> Frequency(column, bin)]
            ELSE [error |-> "",
                  x_value |-> [b \in 1..bin |-> <<cmin * bin + (cmax - cmin) * (b - 1), bin>>],
                  frequency |-> [b \in 1..bin |-> <<Frequency(column, bin)[b] * 100, row_num>>],
                  counts |-> Frequency(column, bin)]
       ELSE [error |-> "", x_value |-> <<<<cmin, 1>>>>, frequency |-> <<<<1, 1>>>>,
             counts |-> <<>>]

DrawDistribution(bin) ==
    LET res == [c \in 1..Len(data_columns) |->
                   ColumnDistribution(data_columns[c], bin, xvg_row_num)]
        bad == {c \in 1..Len(data_columns) : res[c].error # ""}
        first == CHOOSE c \in bad : \A d \in bad : c <= d
    IN /\ pc = "ready"
       /\ UNCHANGED <<errLine, feed, nread, nData, lastLine, xvg_filename, fields,
                      data_heads, data_columns, warned>>
       /\ IF bad # {}
          THEN /\ pc' = IF res[first].error = "ConsistencyError" THEN "exited" ELSE "raised"
               /\ err' = res[first].error
               /\ ret' = [op |-> "draw_distribution", args |-> <<bin>>,
                          val |-> SubSeq(res, 1, first - 1)]
          ELSE /\ pc' = "returned" /\ UNCHANGED err
               /\ ret' = [op |-> "draw_distribution", args |-> <<bin>>, val |-> res]

\* ------------------------------------------------------------ the program
\* The caller is done with what the method returned and may call again.
Discard ==
    /\ pc = "returned"
    /\ pc' = "ready"
    /\ ret' = NoRet
    /\ UNCHANGED <<err, errLine, feed, nread, nData, lastLine, xvg_filename, fields,
                   data_heads, data_columns, warned>>

\* Arguments tried for calc_average's start and end.
AvgArgs == {NoneOpt} \cup {Some(i) : i \in 0..MaxIdx}

WindowArgs == 0..(MaxRamp \div 2 + 1)

ConfidenceArgs == {0, 950, 1000}

Next == \/ \E f \in {XvgName, TxtName}, e \in BOOLEAN : Open(f, e)
        \/ ReadPool
        \/ ReadRamp
        \/ EndParse
        \/ \E s \in AvgArgs, e \in AvgArgs : CalcAverage(s, e)
        \/ \E w \in WindowArgs, c \in ConfidenceArgs : CalcMvave(w, c)
        \/ \E o \in {<<>>, CsvName, TxtName}, e \in BOOLEAN : Xvg2csv(o, e)
        \/ \E b \in 1..MaxBin : DrawDistribution(b)
        \/ Discard

Spec == Init /\ [][Next]_vars

\* ================================================================ claims
Built == pc \in {"ready", "returned"}

\* Two rationals <<n, d>> with positive denominators are the same number.
RatEq(p, q) == p # NaN /\ q # NaN /\ p[1] * q[2] = q[1] * p[2]

\* Whitespace-separated tokens of a line, counted from the characters.
TokenCount(line) ==
    Cardinality({i \in 1..Len(line) :
        line[i] \notin WS /\ (i = 1 \/ line[i - 1] \in WS)})

\* C1: once construction has succeeded, xvg_row_num is the number of non-empty
\* lines that are neither comments nor metadata, every raw column and every
\* numeric column has xvg_row_num entries, and there are as many headers as
\* numeric columns.
C1_RowCountAndShape ==
    Built =>
        /\ xvg_row_num = nData
        /\ \A c \in 1..Len(xvg_columns) : Len(xvg_columns[c]) = xvg_row_num
        /\ \A c \in 1..Len(data_columns) : Len(data_columns[c]) = xvg_row_num
        /\ Len(data_heads) = Len(data_columns)

C1_Witness ==
    /\ pc = "ready"
    /\ nData >= 2
    /\ xvg_legends # <<>>
    /\ Len(data_columns) >= 2
    /\ Len(xvg_columns) > Len(data_columns)

\* C2: a data row whose token count differs from the first data row's aborts the
\* construction with the column-count error, which reports that row; nothing of
\* the dataset is produced and only the rows before it were ingested.
C2_MismatchAborts ==
    (/\ lastLine # <<>>
     /\ CountsAsData(lastLine)
     /\ xvg_column_num > 0
     /\ TokenCount(lastLine) # xvg_column_num)
    => /\ pc = "exited"
       /\ err = "ColumnCountMismatch"
       /\ errLine = lastLine
       /\ data_heads = <<>>
       /\ data_columns = <<>>
       /\ xvg_row_num = nData - 1
       /\ \A c \in 1..Len(xvg_columns) : Len(xvg_columns[c]) = nData - 1

C2_Witness ==
    /\ pc = "exited"
    /\ err = "ColumnCountMismatch"
    /\ xvg_row_num = 2
    /\ TokenCount(errLine) > xvg_column_num

\* C3: with legends declared and more raw columns than legends, the y label is
\* split on ',' and trimmed; as many pieces as legends: header i is legend i,
\* a space, piece i; else one piece shorter than 5 characters: every header is
\* legend, a space, that piece; otherwise the legends unchanged and a warning.
\* data_heads is the x label followed by those headers and data column k
\* (k >= 1) holds raw column k.
S1 == <<"s", "1">>
S2 == <<"s", "2">>

C3_Pieces == LET p == Split(xvg_ylabel, ",") IN [k \in 1..Len(p) |-> Strip(p[k])]

C3_HeaderReconciliation ==
    (Built /\ Len(xvg_legends) > 0 /\ Len(xvg_columns) > Len(xvg_legends)) =>
        LET n == Len(xvg_legends)
            paired == Len(C3_Pieces) = n
            single == ~paired /\ Len(C3_Pieces) = 1 /\ Len(C3_Pieces[1]) < 5
        IN /\ Len(data_heads) = n + 1
           /\ data_heads[1] = xvg_xlabel
           /\ \A i \in 1..n :
                data_heads[i + 1] =
                    IF paired THEN xvg_legends[i] \o <<" ">> \o C3_Pieces[i]
                    ELSE IF single THEN xvg_legends[i] \o <<" ">> \o C3_Pieces[1]
                    ELSE xvg_legends[i]
           /\ warned = (~paired /\ ~single)
           /\ Len(data_columns) = n + 1
           /\ \A k \in 1..(n + 1) : \A r \in 1..xvg_row_num :
                /\ IsNumeric(xvg_columns[k][r])
                /\ NatStr(data_columns[k][r]) = xvg_columns[k][r]
           /\ (xvg_legends = <<S1, S2>> /\ xvg_ylabel = <<"A", ",", " ", "B">>)
                => /\ SubSeq(data_heads, 2, 3) = <<S1 \o <<" ", "A">>, S2 \o <<" ", "B">>>>
                   /\ ~warned
           /\ (xvg_legends = <<S1, S2>> /\ xvg_ylabel = <<"n", "m">>)
                => /\ SubSeq(data_heads, 2, 3) = <<S1 \o <<" ", "n", "m">>, S2 \o <<" ", "n", "m">>>>
                   /\ ~warned
           /\ (xvg_legends = <<S1, S2>> /\ Len(xvg_ylabel) >= 5 /\ ~Contains(xvg_ylabel, <<",">>))
                => /\ SubSeq(data_heads, 2, 3) = <<S1, S2>>
                   /\ warned

C3_Witness ==
    /\ pc = "ready"
    /\ xvg_legends = <<S1, S2>>
    /\ xvg_ylabel = <<"A", ",", " ", "B">>
    /\ Len(xvg_columns) = 3

\* C9: for every title, axis-label and legend line the stored value is the
\* content of the line's last double-quoted segment, and a line without any
\* double quote gives the empty string.
QuotePositions(line) == {i \in 1..Len(line) : line[i] = DQ}

LastQuotedSegment(line) ==
    LET Q == QuotePositions(line)
        close == CHOOSE i \in Q : \A j \in Q : j <= i
        open == CHOOSE i \in Q \ {close} : \A j \in Q \ {close} : j <= i
    IN IF Q = {} THEN <<>>
       ELSE IF Cardinality(Q) = 1 THEN SubSeq(line, close + 1, Len(line))
       ELSE SubSeq(line, open + 1, close - 1)

C9_LastQuotedSegment ==
    (pc = "parse" /\ lastLine # <<>> /\ Head(lastLine) = "@") =>
        /\ MetaKind(lastLine) = "title" => xvg_title = LastQuotedSegment(lastLine)
        /\ MetaKind(lastLine) = "xlabel" => xvg_xlabel = LastQuotedSegment(lastLine)
        /\ MetaKind(lastLine) = "ylabel" => xvg_ylabel = LastQuotedSegment(lastLine)
        /\ MetaKind(lastLine) = "legend" =>
              /\ xvg_legends # <<>>
              /\ Last(xvg_legends) = LastQuotedSegment(lastLine)

\* C10: a built dataset has no more numeric columns than raw columns, and a
\* successful xvg2csv writes a header line and xvg_row_num data lines, the
\* header line having as many comma-separated fields as every data line.
FieldCount(text) == 1 + Cardinality({i \in 1..Len(text) : text[i] = ","})

C10_CsvHeaderMatchesRows ==
    /\ Built => Len(data_columns) <= xvg_column_num
    /\ (pc = "returned" /\ ret.op = "xvg2csv") =>
        /\ Len(ret.val) = 1 + xvg_row_num
        /\ \A r \in 2..Len(ret.val) : FieldCount(ret.val[r]) = FieldCount(ret.val[1])

\* The sum of the column values at the indices lo..hi, indices counted from 0.
RangeSum(column, lo, hi) ==
    Sum([i \in lo..hi |-> column[i + 1]], lo..hi)

\* C4: calc_average(start, end) is rejected when both are given and
\* start >= end, or when a given bound is >= xvg_row_num; every other call
\* returns, for each column, the mean and the population standard deviation of
\* exactly the values at indices start..end-1 (start 0 and end xvg_row_num
\* when absent), and that range is not empty.
C4_AverageOverRange ==
    ret.op = "calc_average" =>
        LET start == ret.args[1]
            end == ret.args[2]
            rejected == \/ start # NoneOpt /\ end # NoneOpt /\ start[1] >= end[1]
                        \/ start # NoneOpt /\ start[1] >= xvg_row_num
                        \/ end # NoneOpt /\ end[1] >= xvg_row_num
            lo == IF start = NoneOpt THEN 0 ELSE start[1]
            hi == (IF end = NoneOpt THEN xvg_row_num ELSE end[1]) - 1
        IN IF rejected THEN pc = "exited"
           ELSE /\ pc = "returned"
                /\ 0 <= lo /\ lo <= hi /\ hi <= xvg_row_num - 1
                /\ \A c \in 1..Len(data_columns) :
                     /\ RatEq(ret.val.averages[c],
                              <<RangeSum(data_columns[c], lo, hi), hi - lo + 1>>)
                     /\ ret.val.stds[c] # NaN
                     /\ LET n == hi - lo + 1
                            sq == [i \in 1..Len(data_columns[c]) |->
                                      data_columns[c][i] * data_columns[c][i]]
                        IN RatEq(<<ret.val.stds[c][2], ret.val.stds[c][3]>>,
                                 <<n * RangeSum(sq, lo, hi)
                                     - RangeSum(data_columns[c], lo, hi)
                                       * RangeSum(data_columns[c], lo, hi),
                                   n * n>>)

\* C5: calc_mvave is rejected unless 0 < windowsize <= xvg_row_num / 2 and
\* 0 < confidence < 1; otherwise each of the three lists of every column has
\* xvg_row_num entries, the entries at indices 0..windowsize-1 are NaN, and the
\* moving average at every index i in windowsize..xvg_row_num-1 is the mean of
\* the values at indices i-windowsize..i-1.
C5_MovingAverage ==
    ret.op = "calc_mvave" =>
        LET w == ret.args[1]
            conf == ret.args[2]
            valid == 0 < w /\ 2 * w <= xvg_row_num /\ 0 < conf /\ conf < 1000
        IN IF ~valid THEN pc = "exited"
           ELSE /\ pc = "returned"
                /\ Len(ret.val) = Len(data_columns)
                /\ \A c \in 1..Len(data_columns) :
                     /\ Len(ret.val[c].mv_ave) = xvg_row_num
                     /\ Len(ret.val[c].low) = xvg_row_num
                     /\ Len(ret.val[c].high) = xvg_row_num
                     /\ \A i \in 0..(w - 1) :
                          /\ ret.val[c].mv_ave[i + 1] = NaN
                          /\ ret.val[c].low[i + 1] = NaN
                          /\ ret.val[c].high[i + 1] = NaN
                     /\ \A i \in w..(xvg_row_num - 1) :
                          RatEq(ret.val[c].mv_ave[i + 1],
                                <<RangeSum(data_columns[c], i - w, i - 1), w>>)

C5_Witness ==
    /\ pc = "returned"
    /\ ret.op = "calc_mvave"
    /\ ret.args[1] = 2
    /\ xvg_row_num = 4
    /\ Len(data_columns) = 2

\* C6: on the column 1, 2, 3, 4, 5, 6 with windowsize 2, the entries at indices
\* 0 and 1 are NaN and the entry at index 2 is a mean with standard deviation
\* 0.5 and a confidence interval symmetric about it; C6_Entry(m) states this
\* with m the mean, as a rational.
Ramp6 == <<1, 2, 3, 4, 5, 6>>

C6_Entry(m) ==
    (pc = "returned" /\ ret.op = "calc_mvave" /\ ret.args[1] = 2) =>
        \A c \in 1..Len(data_columns) :
            data_columns[c] = Ramp6 =>
                LET mv == ret.val[c].mv_ave
                    low == ret.val[c].low
                    high == ret.val[c].high
                IN /\ mv[1] = NaN /\ mv[2] = NaN
                   /\ RatEq(mv[3], m)
                   /\ low[3] # NaN /\ high[3] # NaN
                   \* the standard deviation is 1/2: its square is 1/4
                   /\ low[3][4] = high[3][4]
                   /\ RatEq(<<low[3][4][2], low[3][4][3]>>, <<1, 4>>)
                   \* low = centre - z * std and high = centre + z * std
                   /\ RatEq(low[3][2], m) /\ RatEq(high[3][2], m)
                   /\ high[3][3] > 0 /\ low[3][3] = 0 - high[3][3]

\* C6 as claimed: the entry at index 2 is the mean of [2, 3] = 2.5.
C6_MeanOfTwoThree == C6_Entry(<<5, 2>>)

\* C6 as the code has it: the entry at index 2 is the mean of [1, 2] = 1.5, the
\* window of windowsize values ending just before index 2.
C6_MeanOfOneTwo == C6_Entry(<<3, 2>>)

C6_Witness ==
    /\ pc = "returned"
    /\ ret.op = "calc_mvave"
    /\ ret.args[1] = 2
    /\ data_columns = <<Ramp6>>
    /\ ret.val[1].mv_ave[3] = <<3, 2>>

\* C7: the distribution of a constant column is a single bucket, at the
\* constant value, with frequency 100 (percent).
IsConstant(column) == \A i, j \in DOMAIN column : column[i] = column[j]

C7_ConstantColumn ==
    (pc = "returned" /\ ret.op = "draw_distribution") =>
        \A c \in 1..Len(data_columns) :
            IsConstant(data_columns[c]) =>
                /\ Len(ret.val[c].x_value) = 1
                /\ RatEq(ret.val[c].x_value[1], <<data_columns[c][1], 1>>)
                /\ Len(ret.val[c].frequency) = 1
                /\ RatEq(ret.val[c].frequency[1], <<100, 1>>)

\* C8: for a non-constant column and bin >= 1, every value goes to bucket
\* floor((value - min) / bin_width) with bin_width = (max - min) / bin; that
\* index is bin only for the column maximum, which goes to bucket bin - 1, so
\* every bucket index is in 0..bin-1; the raw counts sum to xvg_row_num, the
\* consistency error is not reached, and the percentages sum to 100.
FloorBucket(value, column, bin) ==
    CHOOSE k \in 0..bin :
        /\ k * (SeqMax(column) - SeqMin(column)) <= (value - SeqMin(column)) * bin
        /\ (value - SeqMin(column)) * bin < (k + 1) * (SeqMax(column) - SeqMin(column))

ClaimedBucket(value, column, bin) ==
    IF FloorBucket(value, column, bin) = bin THEN bin - 1
    ELSE FloorBucket(value, column, bin)

C8_Binning ==
    ret.op = "draw_distribution" =>
        LET bin == ret.args[1]
        IN /\ pc = "returned"
           /\ Len(ret.val) = Len(data_columns)
           /\ \A c \in 1..Len(data_columns) :
                ~IsConstant(data_columns[c]) =>
                    LET column == data_columns[c]
                        res == ret.val[c]
                    IN /\ \A r \in DOMAIN column :
                            /\ \E k \in 0..bin :
                                 /\ k * (SeqMax(column) - SeqMin(column))
                                      <= (column[r] - SeqMin(column)) * bin
                                 /\ (column[r] - SeqMin(column)) * bin
                                      < (k + 1) * (SeqMax(column) - SeqMin(column))
                            /\ FloorBucket(column[r], column, bin) = bin
                                 => column[r] = SeqMax(column)
                            /\ ClaimedBucket(column[r], column, bin) \in 0..(bin - 1)
                       /\ Len(res.counts) = bin
                       /\ \A b \in 0..(bin - 1) :
                            res.counts[b + 1] =
                                Cardinality({r \in DOMAIN column :
                                    ClaimedBucket(column[r], column, bin) = b})
                       /\ SeqSum(res.counts) = xvg_row_num
                       /\ Len(res.frequency) = bin
                       /\ \A b \in 1..bin : res.frequency[b][2] = xvg_row_num
                       /\ SeqSum([b \in 1..bin |-> res.frequency[b][1]]) = 100 * xvg_row_num

C8_Witness ==
    /\ pc = "returned"
    /\ ret.op = "draw_distribution"
    /\ ret.args[1] = 2
    /\ data_columns = <<<<1, 2, 3, 4>>>>
    /\ ret.val[1].counts = <<2, 2>>
====
